---- MODULE Spec2Model ----
(***************************************************************************)
(* HTMLLinkScraper (src/src/index.tsx): a React component that extracts    *)
(* the <a href> targets of a pasted HTML text, resolves them against a     *)
(* base URL, and lets the user sort them and copy them to the clipboard.   *)
(*                                                                         *)
(* Strings are TLA+ strings.  An HTML text is a sequence of lines, one     *)
(* item per line (an anchor element, a word of text, or blank space).      *)
(* The host's URL parser is modelled on the grammar                        *)
(*     scheme "//" host [dir name]                                         *)
(* over small sets of schemes, hosts, directories and file names; the      *)
(* host's collation (localeCompare) on the strings of that grammar.        *)
(***************************************************************************)
EXTENDS Integers, Sequences, FiniteSets, TLC

VARIABLES html, links, message, isCopied, baseUrl, isSorted, topBaseUrls,
          isCustomUrl, pendingWrites, clipboard, timers, pc

vars == <<html, links, message, isCopied, baseUrl, isSorted, topBaseUrls,
          isCustomUrl, pendingWrites, clipboard, timers, pc>>

(***************************************************************************)
(* Bounds of the model.                                                    *)
(***************************************************************************)
\* longest HTML text (in items) given to extractLinks
MaxItems == 3
\* clipboard writes whose promise is pending
MaxPending == 1
\* reset timers armed and not yet fired
MaxTimers == 2
\* numbered hosts, and URLs appended to the text given to extractTopBaseUrls
MaxHosts == 12
MaxTopLen == 12

\* index.tsx:17
maxTopUrls == 10

(***************************************************************************)
(* Generic helpers on sequences.                                           *)
(***************************************************************************)
Range(s) == {s[i] : i \in 1..Len(s)}

SeqsUpTo(S, n) == UNION {[1..k -> S] : k \in 0..n}

Count(s, x) == Cardinality({i \in 1..Len(s) : s[i] = x})

(***************************************************************************)
(* The URL grammar of the model.                                           *)
(***************************************************************************)
Schemes == {"http:", "https:"}

HostName(i) == "h" \o ToString(i) \o ".com"

Hosts == {"a.com", "b.com"} \cup {HostName(i) : i \in 1..MaxHosts}

Dirs == {"/", "/d/"}

Names == {"", "x", "y"}

\* What follows an href inside the raw text of an anchor: "http://a.com/x">t</a>
AnchorTail == "\">t</a>"

Failure == [ok |-> FALSE, protocol |-> "", hostname |-> "", dir |-> "", name |-> ""]

UrlRecord(sc, h, d, n) ==
    [ok |-> TRUE, protocol |-> sc, hostname |-> h, dir |-> d, name |-> n]

\* The origin in place of the whole URL: the path is lost.
SerializeOriginOnly(u) == u.protocol \o "//" \o u.hostname

\* URL.href: the serialisation of a parsed URL; the path is never empty.
Serialize(u) == u.protocol \o "//" \o u.hostname \o u.dir \o u.name

\* `${parsedUrl.protocol}//${parsedUrl.hostname}`
Origin(u) == u.protocol \o "//" \o u.hostname

(***************************************************************************)
(* The basic URL parser without a base: an absolute http(s) URL parses; an *)
(* empty path becomes "/"; text after the path belongs to the path (it is  *)
(* percent-encoded there); text right after the host belongs to the host,  *)
(* where `<` and `>` are forbidden; anything else is a failure.            *)
(***************************************************************************)
ParseEntries ==
    LET stems == {<<t[1] \o "//" \o t[2], t[1], t[2]>> : t \in Schemes \X Hosts}
        paths == {<<t[1] \o t[2], t[1], t[2]>> : t \in Dirs \X Names}
    IN  {<<st[1], UrlRecord(st[2], st[3], "/", "")>> : st \in stems}
        \cup {<<t[1][1] \o t[2][1], UrlRecord(t[1][2], t[1][3], t[2][2], t[2][3])>> :
                 t \in stems \X paths}
        \cup {<<t[1][1] \o t[2][1] \o AnchorTail,
                UrlRecord(t[1][2], t[1][3], t[2][2], t[2][3])>> : t \in stems \X paths}

\* Every text the parser accepts, and the parser's answers on them.
AbsoluteTexts == {e[1] : e \in ParseEntries}

ParseTable == [s \in AbsoluteTexts |-> (CHOOSE e \in ParseEntries : e[1] = s)[2]]

ParseAbsolute(s) == IF s \in AbsoluteTexts THEN ParseTable[s] ELSE Failure

\* Texts with a scheme and "//" that have no valid host after it.
NoHostTexts ==
    {sc \o "//" : sc \in Schemes}
        \cup {sc \o "//" \o AnchorTail : sc \in Schemes}
        \cup {t[1] \o "//" \o t[2] \o AnchorTail : t \in Schemes \X Hosts}

\* A text that begins with a special scheme and "//" is parsed as an absolute
\* URL whatever the base is; with no host after the "//" that parse fails.
HasAuthority(s) ==
    \/ s \in AbsoluteTexts
    \/ s \in NoHostTexts

\* The directory of a base URL's path, onto which a relative name is joined.
\* The path-absolute references of the model are the paths of the root
\* directory, "/x" and "/y".
IsPathAbsolute(s) == s \in {"/" \o n : n \in Names \ {""}}

(***************************************************************************)
(* new URL(url, base): [threw |-> TRUE] for the TypeError, else the parsed *)
(* URL.  The base is parsed first, and an invalid base throws even when    *)
(* url is absolute.                                                        *)
(***************************************************************************)
Threw == [threw |-> TRUE, url |-> Failure]

Parsed(u) == [threw |-> FALSE, url |-> u]

URLWithBase(url, base) ==
    LET b == ParseAbsolute(base)
    IN  IF ~b.ok THEN Threw
        ELSE IF HasAuthority(url)
        THEN LET u == ParseAbsolute(url)
             IN  IF u.ok THEN Parsed(u) ELSE Threw
        ELSE IF url = "" THEN Parsed(b)
        ELSE IF IsPathAbsolute(url)
        THEN LET n == CHOOSE n \in Names : url = "/" \o n
             IN  Parsed(UrlRecord(b.protocol, b.hostname, "/", n))
        ELSE Parsed(UrlRecord(b.protocol, b.hostname, b.dir, url))

\* new URL(url): no base.
URLNoBase(url) ==
    LET u == ParseAbsolute(url)
    IN  IF u.ok THEN Parsed(u) ELSE Threw

(***************************************************************************)
(* The items of an HTML text.                                              *)
(*   anchor   <a href="H">t</a>, or <a>t</a> when it has no href           *)
(*   word     a word of text outside any anchor                            *)
(*   blank    white space only                                             *)
(***************************************************************************)
Anchor(h) == [kind |-> "a", hasHref |-> TRUE, text |-> h]

AnchorNoHref == [kind |-> "a", hasHref |-> FALSE, text |-> ""]

Word(w) == [kind |-> "word", hasHref |-> FALSE, text |-> w]

Blank == [kind |-> "blank", hasHref |-> FALSE, text |-> " "]

\* html is the empty string
IsEmptyText(h) == h = <<>>

\* html.trim() is the empty string
IsBlankText(h) == \A i \in 1..Len(h) : h[i].kind = "blank"

\* doc.getElementsByTagName('a'), in document order
getElementsByTagName(h, tag) == SelectSeq(h, LAMBDA it : it.kind = tag)

(***************************************************************************)
(* Array.prototype.sort with comparator cmp: a stable sort.  Element i     *)
(* goes after every element that compares lower and after every earlier    *)
(* element that compares equal.                                            *)
(***************************************************************************)
StableSort(s, cmp(_, _)) ==
    LET before(i) == {j \in 1..Len(s) : \/ cmp(s[j], s[i]) < 0
                                        \/ cmp(s[j], s[i]) = 0 /\ j < i}
    IN  [k \in 1..Len(s) |->
            s[CHOOSE i \in 1..Len(s) : Cardinality(before(i)) = k - 1]]

\* Array.from(new Set(arr)): a Set keeps the first insertion of each value.
RECURSIVE SetInsertAll(_, _)
SetInsertAll(acc, rest) ==
    IF rest = <<>> THEN acc
    ELSE SetInsertAll(IF Head(rest) \in Range(acc) THEN acc
                      ELSE Append(acc, Head(rest)),
                      Tail(rest))

ArrayFromSet(arr) == SetInsertAll(<<>>, arr)

(***************************************************************************)
(* extractLinks (index.tsx:48-63).                                         *)
(***************************************************************************)
Null == [kind |-> "null", val |-> ""]

Value(v) == [kind |-> "value", val |-> v]

Thrown == [kind |-> "throw", val |-> ""]

\* The .map callback of one anchor with the try/catch removed: a TypeError of
\* the URL constructor escapes.
MapAnchorNoCatch(a, base) ==
    IF ~a.hasHref \/ a.text = "" THEN Null
    ELSE LET r == URLWithBase(a.text, base)
         IN  IF r.threw THEN Thrown ELSE Value(Serialize(r.url))

\* The .map callback of one anchor (index.tsx:52-60).
MapAnchor(a, base) ==
    IF ~a.hasHref \/ a.text = "" THEN Null
    ELSE LET r == URLWithBase(a.text, base)
         IN  IF r.threw THEN Value(a.text) ELSE Value(Serialize(r.url))

\* extractLinks without the Set: every anchor's string is kept.
ExtractNoDedupe(h, base) ==
    LET anchors == getElementsByTagName(h, "a")
        mapped == [i \in 1..Len(anchors) |-> MapAnchor(anchors[i], base)]
        kept == SelectSeq(mapped, LAMBDA m : m.kind = "value")
    IN  [threw |-> \E i \in 1..Len(mapped) : mapped[i].kind = "throw",
         value |-> [i \in 1..Len(kept) |-> kept[i].val]]

\* The call and how it ends: threw, or the value returned.
ExtractOutcome(h, base) ==
    LET anchors == getElementsByTagName(h, "a")
        mapped == [i \in 1..Len(anchors) |-> MapAnchor(anchors[i], base)]
        kept == SelectSeq(mapped, LAMBDA m : m.kind # "null")
    IN  IF \E i \in 1..Len(mapped) : mapped[i].kind = "throw"
        THEN [threw |-> TRUE, value |-> <<>>]
        ELSE [threw |-> FALSE,
              value |-> ArrayFromSet([i \in 1..Len(kept) |-> kept[i].val])]

extractLinks(h, base) == ExtractOutcome(h, base).value

(***************************************************************************)
(* extractTopBaseUrls (index.tsx:20-45).                                   *)
(***************************************************************************)
NoMatch == [found |-> FALSE, text |-> ""]

Match(t) == [found |-> TRUE, text |-> t]

\* /(https?:\/\/[^\s/$.?#].[^\s]*)/gi on the raw text of one item: the match
\* starts at the scheme, needs two characters after the "//", the first of
\* them none of / $ . ? #, and runs to the next white space, which is the end
\* of the item: for an anchor it takes in the `">t</a>` after the href.
RegexMatch(it) ==
    IF it.kind = "a" /\ it.hasHref /\ HasAuthority(it.text)
    THEN Match(it.text \o AnchorTail)
    ELSE IF it.kind = "word" /\ HasAuthority(it.text)
                             /\ it.text \notin {sc \o "//" : sc \in Schemes}
    THEN Match(it.text)
    ELSE NoMatch

\* html.match(urlRegex) || []
HtmlMatches(h) ==
    LET all == [i \in 1..Len(h) |-> RegexMatch(h[i])]
        found == SelectSeq(all, LAMBDA m : m.found)
    IN  [i \in 1..Len(found) |-> found[i].text]

\* matches.map(url => protocol//hostname, or null).filter(not null)
BaseUrlsOf(matches) ==
    LET mapped == [i \in 1..Len(matches) |-> URLNoBase(matches[i])]
        kept == SelectSeq(mapped, LAMBDA r : ~r.threw)
    IN  [i \in 1..Len(kept) |-> Origin(kept[i].url)]

\* baseUrls.reduce(...): the counts, as Object.entries lists them (the keys in
\* the order of their first insertion).
RECURSIVE CountReduce(_, _)
CountReduce(acc, rest) ==
    IF rest = <<>> THEN acc
    ELSE LET url == Head(rest)
             at == {i \in 1..Len(acc) : acc[i][1] = url}
         IN  CountReduce(IF at = {}
                         THEN Append(acc, <<url, 1>>)
                         ELSE LET i == CHOOSE i \in at : TRUE
                              IN  [acc EXCEPT ![i] = <<url, acc[i][2] + 1>>],
                         Tail(rest))

UrlCounts(h) == CountReduce(<<>>, BaseUrlsOf(HtmlMatches(h)))

\* The comparator with its operands swapped: a[1] - b[1]
ByCountAscending(a, b) == a[2] - b[2]

\* (a, b) => b[1] - a[1]
ByCountDescending(a, b) == b[2] - a[2]

\* arr.slice(0, n)
Slice(arr, n) == SubSeq(arr, 1, IF Len(arr) < n THEN Len(arr) ELSE n)

extractTopBaseUrls(h) ==
    LET sorted == StableSort(UrlCounts(h), ByCountDescending)
        top == Slice(sorted, maxTopUrls)
    IN  [i \in 1..Len(top) |-> top[i][1]]

(***************************************************************************)
(* String helpers of the handlers.                                         *)
(***************************************************************************)
\* Array.prototype.join(sep): the first element, then sep and the next, ...
RECURSIVE JoinFrom(_, _, _)
JoinFrom(acc, rest, sep) ==
    IF rest = <<>> THEN acc
    ELSE JoinFrom(acc \o sep \o Head(rest), Tail(rest), sep)

\* A join that puts the separator before every element, the first included.
JoinLeadingSeparator(arr, sep) == JoinFrom("", arr, sep)

join(arr, sep) == IF arr = <<>> THEN "" ELSE JoinFrom(Head(arr), Tail(arr), sep)

\* The host's collation on the strings links can hold: punctuation sorts
\* before letters, a prefix before its extensions.
CollationOrder ==
    << "/x", "http://", "http://a.com", "http://a.com/", "http://a.com/x",
       "http://a.com/y", "http://b.com", "http://b.com/", "http://b.com/d/",
       "http://b.com/d/x", "http://b.com/d/y", "http://b.com/x",
       "http://b.com/y", "y" >>

CollationIndex(s) == CHOOSE i \in 1..Len(CollationOrder) : CollationOrder[i] = s

\* a.localeCompare(b): negative, zero or positive
localeCompare(a, b) == CollationIndex(a) - CollationIndex(b)

\* `${n} unique link${n === 1 ? '' : 's'} extracted.`
ExtractedMessage(n) ==
    ToString(n) \o " unique link" \o (IF n = 1 THEN "" ELSE "s") \o " extracted."

NoLinksFound == "No links were found in the provided HTML."

NoLinksToCopy == "No links to copy."

CopiedMessage == "Links copied to clipboard!"

CopyFailedMessage == "Failed to copy links. Please try again or copy manually."

(***************************************************************************)
(* The inputs.                                                             *)
(***************************************************************************)
\* href attributes of the anchors given to extractLinks
Hrefs == {"http://a.com/x", "http://a.com", "http://b.com/y", "/x", "y", "",
          "http://"}

Items == {Anchor(h) : h \in Hrefs} \cup {AnchorNoHref, Word("hello")}

\* what the user types into the custom base URL field
CustomBaseUrls == {"", "https://", "http://b.com/d/"}

\* base URLs given to extractLinks
BaseUrls == CustomBaseUrls \cup {"foo", "http://a.com", "http://b.com"}

\* the texts pasted into the component: the empty text, white space, a text
\* with no anchor, one link, and two links
PastedTexts ==
    { <<>>,
      <<Blank>>,
      <<Word("hello")>>,
      <<Anchor("http://b.com/d/y")>>,
      <<Anchor("/x"), Word("hello"), Anchor("http://b.com/d/y")>> }

(***************************************************************************)
(* The component: state after the first render and its effects.            *)
(***************************************************************************)
Init ==
    /\ html = <<>>
    /\ links = <<>>
    /\ message = ""
    /\ isCopied = FALSE
    /\ baseUrl = "https://"
    /\ isSorted = FALSE
    /\ topBaseUrls = <<>>
    /\ isCustomUrl = TRUE
    /\ pendingWrites = <<>>
    /\ clipboard = ""
    /\ timers = 0
    /\ pc = "idle"

\* useEffect(..., [html]) (index.tsx:66-69)
TopBaseUrlsEffect(newHtml) ==
    topBaseUrls' = IF newHtml # html THEN extractTopBaseUrls(newHtml)
                   ELSE topBaseUrls

\* The effect without its setIsSorted(false)
ExtractEffectKeepSorted(newHtml, newBaseUrl) ==
    IF /\ newHtml # html \/ newBaseUrl # baseUrl
       /\ ~IsEmptyText(newHtml) /\ newBaseUrl # ""
    THEN LET extractedLinks == extractLinks(newHtml, newBaseUrl)
         IN  /\ links' = extractedLinks
             /\ message' = IF Len(extractedLinks) = 0
                           THEN (IF ~IsBlankText(newHtml) THEN NoLinksFound ELSE "")
                           ELSE ExtractedMessage(Len(extractedLinks))
             /\ isCopied' = FALSE
             /\ UNCHANGED isSorted
    ELSE UNCHANGED <<links, message, isCopied, isSorted>>

\* useEffect(..., [html, baseUrl]) (index.tsx:72-84)
ExtractEffect(newHtml, newBaseUrl) ==
    IF /\ newHtml # html \/ newBaseUrl # baseUrl
       /\ ~IsEmptyText(newHtml) /\ newBaseUrl # ""
    THEN LET extractedLinks == extractLinks(newHtml, newBaseUrl)
         IN  /\ links' = extractedLinks
             /\ message' = IF Len(extractedLinks) = 0
                           THEN (IF ~IsBlankText(newHtml) THEN NoLinksFound ELSE "")
                           ELSE ExtractedMessage(Len(extractedLinks))
             /\ isCopied' = FALSE
             /\ isSorted' = FALSE
    ELSE UNCHANGED <<links, message, isCopied, isSorted>>

\* The textarea's onChange: setHtml(e.target.value), the render and its effects.
SetHtml(value) ==
    /\ value # html
    /\ html' = value
    /\ TopBaseUrlsEffect(value)
    /\ ExtractEffect(value, baseUrl)
    /\ UNCHANGED <<baseUrl, isCustomUrl, pendingWrites, clipboard, timers, pc>>

\* The option the select shows: value={isCustomUrl ? 'custom' : baseUrl}; with
\* a value that is no option's, the first option ('custom') is shown.
SelectedOption ==
    IF isCustomUrl \/ baseUrl \notin Range(topBaseUrls) THEN "custom" ELSE baseUrl

\* handleBaseUrlChange (index.tsx:87-96), the render and its effects.
handleBaseUrlChange(value) ==
    /\ value \in {"custom"} \cup Range(topBaseUrls)
    /\ value # SelectedOption
    /\ IF value = "custom"
       THEN /\ isCustomUrl' = TRUE
            /\ baseUrl' = "https://"
       ELSE /\ isCustomUrl' = FALSE
            /\ baseUrl' = value
    /\ ExtractEffect(html, baseUrl')
    /\ UNCHANGED <<html, topBaseUrls, pendingWrites, clipboard, timers, pc>>

\* handleCustomBaseUrlChange (index.tsx:99-101); the input is rendered only
\* while isCustomUrl (index.tsx:176).
handleCustomBaseUrlChange(value) ==
    /\ isCustomUrl
    /\ value # baseUrl
    /\ baseUrl' = value
    /\ ExtractEffect(html, value)
    /\ UNCHANGED <<html, topBaseUrls, isCustomUrl, pendingWrites, clipboard, timers, pc>>

\* The sort with its comparison reversed: b.localeCompare(a)
SortedLinksDescending(ls) == StableSort(ls, LAMBDA a, b : localeCompare(b, a))

\* [...links].sort((a, b) => a.localeCompare(b))
SortedLinks(ls) == StableSort(ls, localeCompare)

\* handleSortLinks (index.tsx:123-127)
handleSortLinks ==
    /\ links' = SortedLinks(links)
    /\ isSorted' = TRUE
    /\ UNCHANGED <<html, message, isCopied, baseUrl, topBaseUrls, isCustomUrl,
                   pendingWrites, clipboard, timers, pc>>

\* The "Sort Links A-Z" button: disabled={links.length === 0 || isSorted}
SortButton ==
    /\ ~(Len(links) = 0 \/ isSorted)
    /\ handleSortLinks

\* handleCopyLinks up to its await (index.tsx:104-113): the text goes to
\* navigator.clipboard.writeText, whose promise is then pending.
handleCopyLinks ==
    /\ IF Len(links) = 0
       THEN /\ message' = NoLinksToCopy
            /\ UNCHANGED pendingWrites
       ELSE /\ Len(pendingWrites) < MaxPending
            /\ pendingWrites' = Append(pendingWrites, join(links, "\n"))
            /\ UNCHANGED message
    /\ UNCHANGED <<html, links, isCopied, baseUrl, isSorted, topBaseUrls,
                   isCustomUrl, clipboard, timers, pc>>

\* The "Copy Links" button: disabled={links.length === 0}
CopyButton ==
    /\ Len(links) # 0
    /\ handleCopyLinks

\* The write succeeds and handleCopyLinks resumes (index.tsx:114-116).
ClipboardResolve ==
    /\ pendingWrites # <<>>
    /\ timers < MaxTimers
    /\ clipboard' = Head(pendingWrites)
    /\ pendingWrites' = Tail(pendingWrites)
    /\ message' = CopiedMessage
    /\ isCopied' = TRUE
    /\ timers' = timers + 1
    /\ UNCHANGED <<html, links, baseUrl, isSorted, topBaseUrls, isCustomUrl, pc>>

\* A rejection that is not caught apart from the message: the lines after the
\* await run as well.
ClipboardRejectThenCopied ==
    /\ pendingWrites # <<>>
    /\ timers < MaxTimers
    /\ pendingWrites' = Tail(pendingWrites)
    /\ message' = CopyFailedMessage
    /\ isCopied' = TRUE
    /\ timers' = timers + 1
    /\ UNCHANGED <<html, links, baseUrl, isSorted, topBaseUrls, isCustomUrl,
                   clipboard, pc>>

\* The write is rejected and the catch runs (index.tsx:117-119).
ClipboardReject ==
    /\ pendingWrites # <<>>
    /\ pendingWrites' = Tail(pendingWrites)
    /\ message' = CopyFailedMessage
    /\ UNCHANGED <<html, links, isCopied, baseUrl, isSorted, topBaseUrls,
                   isCustomUrl, clipboard, timers, pc>>

\* setTimeout(() => setIsCopied(false), 3000) fires (index.tsx:116).
TimerFire ==
    /\ timers > 0
    /\ timers' = timers - 1
    /\ isCopied' = FALSE
    /\ UNCHANGED <<html, links, message, baseUrl, isSorted, topBaseUrls,
                   isCustomUrl, pendingWrites, clipboard, pc>>

PasteHtml == \E value \in PastedTexts : SetHtml(value)

SelectBaseUrl == \E value \in {"custom"} \cup Range(topBaseUrls) : handleBaseUrlChange(value)

TypeBaseUrl == \E value \in CustomBaseUrls : handleCustomBaseUrlChange(value)

\* The component as the user drives it.
Next ==
    \/ PasteHtml
    \/ SelectBaseUrl
    \/ TypeBaseUrl
    \/ SortButton
    \/ CopyButton
    \/ ClipboardResolve
    \/ ClipboardReject
    \/ TimerFire

Spec == Init /\ [][Next]_vars

\* The handlers called in any state, whatever the buttons allow.
NextHandlers ==
    \/ PasteHtml
    \/ SelectBaseUrl
    \/ TypeBaseUrl
    \/ handleSortLinks
    \/ handleCopyLinks
    \/ ClipboardResolve
    \/ ClipboardReject
    \/ TimerFire

SpecHandlers == Init /\ [][NextHandlers]_vars

(***************************************************************************)
(* extractLinks as a function: the inputs are drawn, then it is called.    *)
(***************************************************************************)
InitExtract ==
    /\ html \in SeqsUpTo(Items, MaxItems)
    /\ baseUrl \in BaseUrls
    /\ links = <<>>
    /\ message = ""
    /\ isCopied = FALSE
    /\ isSorted = FALSE
    /\ topBaseUrls = <<>>
    /\ isCustomUrl = TRUE
    /\ pendingWrites = <<>>
    /\ clipboard = ""
    /\ timers = 0
    /\ pc = "call"

CallExtractLinks ==
    /\ pc = "call"
    /\ LET outcome == ExtractOutcome(html, baseUrl)
       IN  /\ pc' = IF outcome.threw THEN "threw" ELSE "returned"
           /\ links' = outcome.value
    /\ UNCHANGED <<html, message, isCopied, baseUrl, isSorted, topBaseUrls,
                   isCustomUrl, pendingWrites, clipboard, timers>>

SpecExtract == InitExtract /\ [][CallExtractLinks]_vars

(***************************************************************************)
(* extractTopBaseUrls as a function: a text is started, URLs on numbered   *)
(* hosts are appended to it, then it is called.                            *)
(***************************************************************************)
NumberedUrl(k) == "http://" \o HostName(k) \o "/x"

\* three anchors from http://a.com/x and two from http://b.com/y
ThreeAndTwo ==
    << Anchor("http://b.com/y"), Anchor("http://a.com/x"), Anchor("http://b.com/y"),
       Anchor("http://a.com/x"), Anchor("http://a.com/x") >>

\* the texts to start from: no URL at all; a URL that does not parse (the
\* match runs on into the anchor's markup) after one that does; the example
TopStarts ==
    { <<>>, <<Word("hello"), Anchor("/x")>>,
      <<Word("http://b.com/y"), Anchor("http://a.com")>>, ThreeAndTwo }

InitTop ==
    /\ html \in TopStarts
    /\ links = <<>>
    /\ message = ""
    /\ isCopied = FALSE
    /\ baseUrl = "https://"
    /\ isSorted = FALSE
    /\ topBaseUrls = <<>>
    /\ isCustomUrl = TRUE
    /\ pendingWrites = <<>>
    /\ clipboard = ""
    /\ timers = 0
    /\ pc = "call"

\* numbered hosts the text mentions so far
HostsUsed(h) == Cardinality({k \in 1..MaxHosts : Word(NumberedUrl(k)) \in Range(h)})

\* One more URL: on the latest numbered host again, or on the next new one.
AppendUrl ==
    /\ pc = "call"
    /\ \E k \in {HostsUsed(html), HostsUsed(html) + 1} \cap (1..MaxHosts) :
          /\ Cardinality({i \in 1..Len(html) :
                             \E j \in 1..MaxHosts : html[i] = Word(NumberedUrl(j))})
                < MaxTopLen
          /\ html' = Append(html, Word(NumberedUrl(k)))
    /\ UNCHANGED <<links, message, isCopied, baseUrl, isSorted, topBaseUrls,
                   isCustomUrl, pendingWrites, clipboard, timers, pc>>

CallExtractTopBaseUrls ==
    /\ pc = "call"
    /\ topBaseUrls' = extractTopBaseUrls(html)
    /\ pc' = "returned"
    /\ UNCHANGED <<html, links, message, isCopied, baseUrl, isSorted,
                   isCustomUrl, pendingWrites, clipboard, timers>>

SpecTop == InitTop /\ [][AppendUrl \/ CallExtractTopBaseUrls]_vars

TypeOK ==
    /\ \A i \in 1..Len(links) : links[i] \in Range(CollationOrder)
    /\ timers \in 0..MaxTimers
    /\ Len(pendingWrites) <= MaxPending
    /\ pc = "idle"

(***************************************************************************)
(* Properties of extractLinks.                                             *)
(***************************************************************************)
NoDuplicates(s) == \A i, j \in 1..Len(s) : i # j => s[i] # s[j]

FirstIndex(s, x) == CHOOSE i \in 1..Len(s) : s[i] = x /\ \A j \in 1..(i - 1) : s[j] # x

\* the anchors of the text that carry a non-empty href, in document order
HrefAnchors(h) == SelectSeq(h, LAMBDA it : it.kind = "a" /\ it.hasHref /\ it.text # "")

\* what one such anchor contributes: the resolution of its href against the
\* base when new URL succeeds, the raw href when it throws
Contribution(a, base) ==
    LET r == URLWithBase(a.text, base)
    IN  IF r.threw THEN a.text ELSE r.url.protocol \o "//" \o r.url.hostname
                                        \o r.url.dir \o r.url.name

PerAnchorStrings(h, base) ==
    [i \in 1..Len(HrefAnchors(h)) |-> Contribution(HrefAnchors(h)[i], base)]

\* C3: extractLinks returns the per-anchor strings in document order with
\* every later occurrence of an equal string removed: no two entries are
\* equal, every per-anchor string appears, and the entries are in the order of
\* their first occurrence.
C3_Deduplicated ==
    pc = "returned" =>
        LET per == PerAnchorStrings(html, baseUrl)
        IN  /\ NoDuplicates(links)
            /\ Range(links) = Range(per)
            /\ \A i, j \in 1..Len(links) :
                  i < j => FirstIndex(per, links[i]) < FirstIndex(per, links[j])

\* Two anchors with different hrefs and the same resolved URL gave one entry,
\* beside another entry.
C3_Witness ==
    /\ pc = "returned"
    /\ Len(links) = 2
    /\ LET as == HrefAnchors(html)
       IN  /\ Len(as) = 3
           /\ as[1].text # as[3].text
           /\ Contribution(as[1], baseUrl) = Contribution(as[3], baseUrl)
           /\ Contribution(as[2], baseUrl) # Contribution(as[1], baseUrl)

\* the href begins with 'http'
StartsWithHttp(s) == s \in AbsoluteTexts \cup NoHostTexts

\* an absolute href that names a host and no path
HasNoPath(s) == s \in {t[1] \o "//" \o t[2] : t \in Schemes \X Hosts}

\* C4 as claimed: for every anchor whose href starts with 'http', and every
\* base URL, the returned list contains that href unchanged.
C4_AbsoluteUnchanged ==
    pc = "returned" =>
        \A i \in 1..Len(html) :
            html[i].kind = "a" /\ html[i].hasHref /\ StartsWithHttp(html[i].text)
                => html[i].text \in Range(links)

\* C4 as amended: for every anchor whose href starts with 'http', the list
\* contains the href unchanged when the base URL is not a valid URL or the
\* href does not parse, and otherwise the serialisation of the href: the href
\* itself when it has a path, the href with "/" appended when it has none.
C4_AbsoluteSerialized ==
    pc = "returned" =>
        \A i \in 1..Len(html) :
            LET href == html[i].text
            IN  html[i].kind = "a" /\ html[i].hasHref /\ StartsWithHttp(href) =>
                   IF ParseAbsolute(baseUrl).ok /\ HasNoPath(href)
                   THEN (href \o "/") \in Range(links) /\ href \notin Range(links)
                   ELSE href \in Range(links)

\* With a valid base, an absolute href with a path is kept and one without a
\* path has gained its "/".
C4_Witness ==
    /\ pc = "returned"
    /\ baseUrl = "http://b.com/d/"
    /\ html = <<Anchor("http://a.com"), Anchor("http://b.com/y")>>
    /\ links = <<"http://a.com/", "http://b.com/y">>

\* C5: extractLinks never raises; each anchor with a non-empty href
\* contributes the resolution of its href against the base URL when the
\* resolution succeeds and the raw href when it fails, also after an anchor
\* that failed; anchors without href contribute nothing.
C5_NeverRaises ==
    /\ pc # "threw"
    /\ pc = "returned" =>
          /\ \A i \in 1..Len(HrefAnchors(html)) :
                Contribution(HrefAnchors(html)[i], baseUrl) \in Range(links)
          /\ \A k \in 1..Len(links) :
                \E i \in 1..Len(HrefAnchors(html)) :
                    links[k] = Contribution(HrefAnchors(html)[i], baseUrl)

\* A malformed href under a valid base, an anchor without href, then a
\* relative href: the first is kept raw, the last is resolved.
C5_Witness ==
    /\ pc = "returned"
    /\ baseUrl = "http://b.com/d/"
    /\ html = <<Anchor("http://"), AnchorNoHref, Anchor("y")>>
    /\ links = <<"http://", "http://b.com/d/y">>

(***************************************************************************)
(* Properties of extractTopBaseUrls.                                       *)
(***************************************************************************)
\* the base URL an item of the text holds, when it holds a URL that parses
ItemBaseUrl(it) ==
    LET m == RegexMatch(it)
    IN  IF ~m.found THEN {}
        ELSE LET r == URLNoBase(m.text)
             IN  IF r.threw THEN {}
                 ELSE {r.url.protocol \o "//" \o r.url.hostname}

RECURSIVE ItemBaseUrls(_)
ItemBaseUrls(h) ==
    IF h = <<>> THEN <<>> ELSE <<ItemBaseUrl(Head(h))>> \o ItemBaseUrls(Tail(h))

\* how many items hold base URL u, given the items' base URLs
Occurrences(bases, u) == Cardinality({i \in 1..Len(bases) : u \in bases[i]})

\* C10: extractTopBaseUrls returns the 10 highest-frequency base URLs sorted
\* descending by count: at most 10 entries (all of them when there are fewer),
\* all distinct, counts non-increasing, no base URL left out occurs more often
\* than one included, the most frequent first; the empty list when the text
\* holds no absolute URL; http://a.com first for three URLs on http://a.com
\* and two on http://b.com.
C10_TopBaseUrls ==
    pc = "returned" =>
        LET bases == ItemBaseUrls(html)
            all == UNION Range(bases)
            r == topBaseUrls
        IN  /\ Len(r) <= 10
            /\ Len(r) = IF Cardinality(all) < 10 THEN Cardinality(all) ELSE 10
            /\ NoDuplicates(r)
            /\ Range(r) \subseteq all
            /\ \A i \in 1..(Len(r) - 1) :
                  Occurrences(bases, r[i]) >= Occurrences(bases, r[i + 1])
            /\ \A u \in all \ Range(r) :
                  Occurrences(bases, u) <= Occurrences(bases, r[Len(r)])
            /\ \A u \in all : Occurrences(bases, u) <= Occurrences(bases, r[1])
            /\ (\A i \in 1..Len(html) : ~RegexMatch(html[i]).found) => r = <<>>
            /\ html = ThreeAndTwo => r = <<"http://a.com", "http://b.com">>

\* Twelve base URLs, one of them twice: ten are returned, the one that occurs
\* twice first, and two are left out.
C10_Witness ==
    /\ pc = "returned"
    /\ Len(topBaseUrls) = 10
    /\ Cardinality(UNION Range(ItemBaseUrls(html))) = 12
    /\ Occurrences(ItemBaseUrls(html), topBaseUrls[1]) = 2
    /\ Occurrences(ItemBaseUrls(html), topBaseUrls[10]) = 1
    /\ topBaseUrls[1] # "http://h1.com"

(***************************************************************************)
(* Properties of the component.                                            *)
(***************************************************************************)
HasNoAnchor(h) == \A i \in 1..Len(h) : h[i].kind # "a"

InputChanged == html' # html \/ baseUrl' # baseUrl

\* C1 as claimed: once a change of html or of the base URL has been
\* processed, if the html holds no anchor (the empty string included) then
\* links is empty and message is '' or 'No links were found in the provided
\* HTML.'.
C1_NoAnchorNoLinks ==
    [][InputChanged /\ HasNoAnchor(html') =>
          links' = <<>> /\ message' \in {"", NoLinksFound}]_vars

\* C2 as claimed: once a change of html or of the base URL has been
\* processed, links is extractLinks of the current html and base URL, the
\* empty string included.
C2_LinksRecomputed ==
    [][InputChanged => links' = extractLinks(html', baseUrl')]_vars

\* C6 as claimed: once a change of html or of the base URL has been
\* processed, isSorted is false, whatever the new values are.
C6_SortedReset ==
    [][InputChanged => ~isSorted']_vars

IsAscending(s) == \A i \in 1..(Len(s) - 1) : localeCompare(s[i], s[i + 1]) <= 0

\* C7: handleSortLinks replaces links by a permutation of the same entries
\* in ascending order of the comparison, leaves an already sorted list as it
\* is (sorting its own result changes nothing), and changes neither the number
\* of links nor message nor isCopied.
C7_SortOrderOnly ==
    [][handleSortLinks =>
          /\ IsAscending(links')
          /\ \A x \in Range(links) \cup Range(links') : Count(links', x) = Count(links, x)
          /\ Len(links') = Len(links)
          /\ IsAscending(links) => links' = links
          /\ SortedLinks(links') = links'
          /\ message' = message
          /\ isCopied' = isCopied]_vars

\* A sort has put two links into another order than the extraction's.
C7_Witness ==
    /\ isSorted
    /\ Len(links) = 2
    /\ Len(extractLinks(html, baseUrl)) = 2
    /\ links[1] = extractLinks(html, baseUrl)[2]
    /\ links[2] = extractLinks(html, baseUrl)[1]
    /\ links[1] # links[2]
    /\ message = ExtractedMessage(2)

RECURSIVE NewlineJoined(_)
NewlineJoined(s) ==
    IF s = <<>> THEN ""
    ELSE IF Len(s) = 1 THEN s[1]
    ELSE s[1] \o "\n" \o NewlineJoined(Tail(s))

\* C8: handleCopyLinks with a non-empty list passes to the clipboard the
\* entries of links joined by newline, in the order the list has when it is
\* invoked; with an empty list it writes nothing and sets message to 'No links
\* to copy.'.
C8_CopyJoinsCurrentOrder ==
    [][handleCopyLinks =>
          IF Len(links) # 0
          THEN /\ pendingWrites' = Append(pendingWrites, NewlineJoined(links))
               /\ links' = links
          ELSE /\ pendingWrites' = pendingWrites
               /\ clipboard' = clipboard
               /\ message' = NoLinksToCopy]_vars

\* The sorted order of two links is on its way to the clipboard, the
\* extraction order being the other one.
C8_Witness ==
    /\ Len(links) = 2
    /\ pendingWrites = <<links[1] \o "\n" \o links[2]>>
    /\ isSorted
    /\ Len(extractLinks(html, baseUrl)) = 2
    /\ links[1] = extractLinks(html, baseUrl)[2]
    /\ links[1] # links[2]

\* C9: when the clipboard write is rejected, message becomes the failure
\* message, links, isSorted, html and baseUrl are unchanged, isCopied is not
\* set, no reset timer is armed, and the rejected write is no longer pending,
\* so that a retry can follow.
C9_RejectionCaught ==
    [][ClipboardReject =>
          /\ message' = CopyFailedMessage
          /\ links' = links /\ isSorted' = isSorted
          /\ html' = html /\ baseUrl' = baseUrl
          /\ isCopied' = isCopied
          /\ timers' = timers
          /\ clipboard' = clipboard
          /\ pendingWrites' = Tail(pendingWrites)]_vars

\* After a rejection (its message shows, nothing was ever copied) a retry is
\* in flight and can succeed.
C9_Witness ==
    /\ message = CopyFailedMessage
    /\ clipboard = ""
    /\ ~isCopied /\ timers = 0
    /\ pendingWrites = <<join(links, "\n")>>
    /\ ENABLED ClipboardResolve

(***************************************************************************)
(* Invariants of the component.                                            *)
(***************************************************************************)
\* C11: in every reachable state, if isSorted is true then links is in
\* ascending order of the sort's comparison.
C11_SortedAscending == isSorted => IsAscending(links)

\* The sort has reordered two links, and a later change of the base URL (to
\* the empty string) has left both the flag and the list in place.
C11_Witness ==
    /\ isSorted
    /\ baseUrl = ""
    /\ links = <<"http://b.com/d/y", "http://b.com/x">>
    /\ html = <<Anchor("/x"), Word("hello"), Anchor("http://b.com/d/y")>>

\* C12: in every reachable state, if isCopied is true (the button shows
\* 'Copied!') then the text last written to the clipboard is the current
\* links joined by newline.
C12_CopiedIsCurrent == isCopied => clipboard = NewlineJoined(links)

\* C13: the 'copied' indicator set by a successful copy is cleared only by an
\* input change or by the reset timer armed by that same copy: when a timer
\* fires while the timer of a later successful copy is still pending, it
\* does not change isCopied.  (The timers have the same delay, so they fire
\* in the order they were armed: the one that fires is the oldest.)
C13_TimerOfSameCopy == [][TimerFire /\ timers' > 0 => isCopied' = isCopied]_vars

\* C14: in every reachable state, if isCustomUrl is false then baseUrl is one
\* of the entries of topBaseUrls computed from the current html (the selected
\* value is an option of the selection control).
C14_SelectedIsOption ==
    ~isCustomUrl => /\ topBaseUrls = extractTopBaseUrls(html)
                    /\ baseUrl \in Range(topBaseUrls)

====
